---- MODULE Spec2Model ----
(***************************************************************************)
(* Model of queue/queue.go: the request queue (Queue), its dispatch loop,  *)
(* the worker pool (independentRunner) and the default storage backend     *)
(* (InMemoryQueueStorage, a singly linked FIFO list).                      *)
(*                                                                         *)
(* The specifications, over the same variables:                            *)
(*   StoreSpec  the storage backend driven directly, one call at a time    *)
(*              (every call runs under q.lock and so is atomic);           *)
(*   Spec       the Queue with Run called once: producers calling          *)
(*              AddRequest/AddURL, the dispatch loop and the workers,      *)
(*              interleaved at every lock acquisition and channel          *)
(*              operation;                                                 *)
(*   FairSpec   Spec with the fairness the Go scheduler gives;             *)
(*   RunSpec    the Queue with Run called up to MaxRuns times;             *)
(*   FaultSpec  Spec with a storage or a collector that may fail: the      *)
(*              QueueSize query of the loop may return an error, and so    *)
(*              may loadRequest (GetRequest, Marshal, UnmarshalRequest).   *)
(* Outside FaultSpec the storage is the InMemoryQueueStorage and requests  *)
(* serialize (Marshal and UnmarshalRequest succeed on a request that is    *)
(* not nil).                                                               *)
(***************************************************************************)
EXTENDS Integers, Sequences, FiniteSets, TLC

\* ------------------------------------------------------------------ bounds
\* Requests (URLs) that may be created in one behaviour
MaxItems == 3
\* Producer threads that are not workers of the queue
MaxExt == 1
\* Calls of Run made in one behaviour
MaxRuns == 2
\* Largest value of Queue.Threads explored (Threads is drawn from 1..MaxThreads)
MaxThreads == 2
\* Largest capacity explored (MaxSize = 0 is unbounded; the storage alone is
\* explored at 0..MaxCap, the Queue at 0 and MaxCap)
MaxCap == 2

\* the nil pointer / nil channel / nil request
Nil == 0
Items == 1..MaxItems
Workers == 1..MaxThreads
\* producer threads that are not workers of the queue
Ext == {10 + k : k \in 1..MaxExt}
\* every thread that may call AddRequest or AddURL
Callers == Ext \cup Workers

VARIABLES
  \* InMemoryQueueStorage
  MaxSize, size, first, last, nodes,
  \* history of the storage: requests appended / popped, in order
  appended, popped,
  \* the last direct call on the storage: [op, err, val]
  call,
  \* Queue
  Threads, wake,
  \* Run: the position of each call made so far, in the order they started
  \* ("wait", "returned", "panicked"), the value each returned, and the
  \* number of loop and worker goroutines started
  rpc, runErr, loops, spawned,
  \* channels made by Run: errc (buffer of one), requestc closed or not
  errc, closed,
  \* loop: position and locals
  lpc, lsize, active, sent, req,
  \* independentRunner: position and the request held
  wpc, wreq,
  \* AddRequest calls: position and locals of each thread's call; the error
  \* returned by the enqueue call (AddRequest, AddURL) that returned last
  apc, awaken, areq, ares,
  \* requests: next fresh one, times executed, and how each was enqueued
  \*   enqOk    requests whose AddRequest / AddURL call has returned nil
  \*   enq      per request: how it came to be stored (see Origin)
  \*   overlap  some enqueue call was in progress while Run was active
  nextItem, executed, enqOk, enq, overlap

storeVars == <<MaxSize, size, first, last, nodes, appended, popped>>
runVars == <<rpc, runErr, loops, spawned, errc, closed>>
loopVars == <<lpc, lsize, active, sent, req>>
workerVars == <<wpc, wreq>>
addVars == <<apc, awaken, areq, ares>>
itemVars == <<nextItem, executed, enqOk, enq, overlap>>
queueVars == <<Threads, wake, runVars, loopVars, workerVars, addVars, itemVars>>
vars == <<storeVars, call, queueVars>>

\* requests a store call has accepted
stored == 1..(nextItem - 1)

\* ------------------------------------------------------- serialization
\* outcome of a nil pointer dereference
Panic == <<"panic">>

\* colly.Request.Marshal: the serialized form of a request. Called on a nil
\* *Request it dereferences nil and panics.
Marshal(r) == IF r = Nil THEN Panic ELSE <<"json", r>>

\* colly.Collector.UnmarshalRequest / json.Unmarshal + url.Parse: the request
\* a serialized form stands for
UnmarshalRequest(b) == b[2]

\* ------------------------------------------------ InMemoryQueueStorage
\* the capacity test off by one: size > MaxSize
QueueFullOffByOne == MaxSize > 0 /\ size > MaxSize

\* line 270: the capacity test of AddRequestPointer
QueueFull == MaxSize > 0 /\ size >= MaxSize

\* error returned by AddRequestPointer in the current state
AddRequestPointerErr == IF QueueFull THEN "ErrQueueFull" ELSE "nil"

\* the new item linked at the head instead of the tail
AddRequestPointerAtHead(r) ==
  IF MaxSize > 0 /\ size >= MaxSize
  THEN UNCHANGED storeVars
  ELSE LET i == Len(nodes) + 1
       IN /\ nodes' = Append(nodes, [Request |-> r, Next |-> first])
          /\ first' = i
          /\ last' = (IF first = Nil THEN i ELSE last)
          /\ size' = size + 1
          /\ appended' = Append(appended, r)
          /\ UNCHANGED <<MaxSize, popped>>

\* AddRequestPointer(r): under q.lock, reject when full, else link a new
\* item at the tail and count it
AddRequestPointer(r) ==
  IF QueueFull
  THEN UNCHANGED storeVars
  ELSE LET i == Len(nodes) + 1
           linked == IF first = Nil THEN nodes
                     ELSE [nodes EXCEPT ![last].Next = i]
       IN /\ nodes' = Append(linked, [Request |-> r, Next |-> Nil])
          /\ first' = (IF first = Nil THEN i ELSE first)
          /\ last' = i
          /\ size' = size + 1
          /\ appended' = Append(appended, r)
          /\ UNCHANGED <<MaxSize, popped>>

\* request returned by GetRequestPointer in the current state (its error is
\* always nil)
GetRequestPointerVal == IF size = 0 THEN Nil ELSE nodes[first].Request

\* GetRequestPointer(): under q.lock, nil when empty, else unlink the head
GetRequestPointer ==
  IF size = 0
  THEN UNCHANGED storeVars
  ELSE /\ first' = nodes[first].Next
       /\ size' = size - 1
       /\ popped' = Append(popped, nodes[first].Request)
       /\ UNCHANGED <<MaxSize, last, nodes, appended>>

\* error of GetRequestPointer as seen by GetRequest (line 287)
GetRequestPointerErr == "nil"

\* value and error returned by GetRequest in the current state: the empty
\* buffer only when GetRequestPointer reported an error, else r.Marshal()
GetRequestVal ==
  IF GetRequestPointerErr # "nil" THEN <<>> ELSE Marshal(GetRequestPointerVal)

GetRequestErr == IF GetRequestVal = Panic THEN "panic" ELSE "nil"

\* GetRequest(): pops through GetRequestPointer
GetRequest == GetRequestPointer

\* QueueSize(): under q.lock, the counter
QueueSize == size

\* ------------------------------------------------- the storage, directly
StoreAdd ==
  /\ nextItem <= MaxItems
  /\ call' = [op |-> "AddRequestPointer", err |-> AddRequestPointerErr,
              val |-> nextItem]
  /\ AddRequestPointer(nextItem)
  /\ nextItem' = (IF AddRequestPointerErr = "nil" THEN nextItem + 1
                  ELSE nextItem)
  /\ UNCHANGED <<Threads, wake, runVars, loopVars, workerVars, addVars,
                 executed, enqOk, enq, overlap>>

\* Storage.AddRequest(bytes): deserialize, then AddRequestPointer
StoreAddBytes ==
  /\ nextItem <= MaxItems
  /\ call' = [op |-> "AddRequest", err |-> AddRequestPointerErr,
              val |-> nextItem]
  /\ AddRequestPointer(UnmarshalRequest(Marshal(nextItem)))
  /\ nextItem' = (IF AddRequestPointerErr = "nil" THEN nextItem + 1
                  ELSE nextItem)
  /\ UNCHANGED <<Threads, wake, runVars, loopVars, workerVars, addVars,
                 executed, enqOk, enq, overlap>>

StoreGetPointer ==
  /\ call' = [op |-> "GetRequestPointer", err |-> GetRequestPointerErr,
              val |-> GetRequestPointerVal]
  /\ GetRequestPointer
  /\ UNCHANGED queueVars

StoreGet ==
  /\ call' = [op |-> "GetRequest", err |-> GetRequestErr, val |-> GetRequestVal]
  /\ GetRequest
  /\ UNCHANGED queueVars

StoreSize ==
  /\ call' = [op |-> "QueueSize", err |-> "nil", val |-> QueueSize]
  /\ UNCHANGED <<storeVars, queueVars>>

\* ------------------------------------------------------------ initial state
\* New(threads, s) followed by s.Init(): an empty list, no wake channel
InitWith(caps) ==
  /\ MaxSize \in caps
  /\ size = 0 /\ first = Nil /\ last = Nil /\ nodes = <<>>
  /\ appended = <<>> /\ popped = <<>>
  /\ call = [op |-> "none", err |-> "nil", val |-> Nil]
  /\ Threads \in 1..MaxThreads
  /\ wake = FALSE
  /\ rpc = <<>>
  /\ runErr = <<>>
  /\ loops = 0 /\ spawned = 0
  /\ errc = <<>> /\ closed = FALSE
  /\ lpc = "none" /\ lsize = 0 /\ active = 0 /\ sent = FALSE /\ req = Nil
  /\ wpc = [w \in Workers |-> "off"]
  /\ wreq = [w \in Workers |-> Nil]
  /\ apc = [t \in Callers |-> "idle"]
  /\ awaken = [t \in Callers |-> FALSE]
  /\ areq = [t \in Callers |-> Nil]
  /\ ares = "none"
  /\ nextItem = 1
  /\ executed = [i \in Items |-> 0]
  /\ enqOk = {}
  /\ enq = [i \in Items |-> "none"]
  /\ overlap = FALSE

\* the Queue is explored unbounded and at one capacity
Init == InitWith({0, MaxCap})

\* the storage alone is explored at every capacity up to MaxCap
StoreInit == InitWith(0..MaxCap)

StoreNext ==
  \/ StoreAdd
  \/ StoreAddBytes
  \/ StoreGetPointer
  \/ StoreGet
  \/ StoreSize

StoreSpec == StoreInit /\ [][StoreNext]_vars

\* ---------------------------------------------------- Queue: enqueue path
\* a thread may call AddRequest / AddURL: any outside producer, and a worker
\* while it executes a request (req.Do() running the collector's callbacks)
CanCall(t) == IF t \in Ext THEN TRUE ELSE wpc[t] = "do"

\* the request a successful store call adds: requests are named 1, 2, ...
\* in the order they are stored (a rejected request is never seen again and
\* gets no name)
NewRequest == nextItem

\* how a request came to be stored:
\*   "worker"     by AddRequest, called by a worker executing a request
\*   "workerURL"  by AddURL, called by a worker executing a request
\*   "awake"      by AddRequest, called by an outside producer, the call
\*                having found Run active (q.wake # nil)
\*   "plain"      by an outside producer otherwise
Origin(t, op, run) ==
  IF t \in Workers THEN (IF op = "AddRequest" THEN "worker" ELSE "workerURL")
  ELSE IF op = "AddRequest" /\ run THEN "awake"
  ELSE "plain"

\* a call op of t has stored NewRequest
Note(t, op, run) ==
  /\ nextItem' = nextItem + 1
  /\ enq' = [enq EXCEPT ![NewRequest] = Origin(t, op, run)]

\* t's AddRequest call returns err; its locals are gone
Return(t, err) ==
  /\ apc' = [apc EXCEPT ![t] = "idle"]
  /\ awaken' = [awaken EXCEPT ![t] = FALSE]
  /\ areq' = [areq EXCEPT ![t] = Nil]
  /\ ares' = err

\* calls that may still store a request
Pending == Cardinality({t \in Callers : apc[t] = "store"})

\* AddRequest, lines 100-102: read q.wake under q.mut
AddRequestLock(t) ==
  /\ CanCall(t) /\ apc[t] = "idle"
  /\ nextItem + Pending <= MaxItems
  /\ awaken' = [awaken EXCEPT ![t] = wake]
  /\ apc' = [apc EXCEPT ![t] = "store"]
  /\ overlap' = (overlap \/ wake)
  /\ UNCHANGED <<storeVars, call, Threads, wake, runVars, loopVars,
                 workerVars, areq, ares, nextItem, executed, enqOk, enq>>

\* AddRequest going on to the wake send although storeRequest failed
AddRequestStoreWakesOnError(t) ==
  /\ apc[t] = "store"
  /\ AddRequestPointer(NewRequest)
  /\ IF AddRequestPointerErr # "nil" /\ ~awaken[t]
     THEN /\ Return(t, AddRequestPointerErr)
          /\ UNCHANGED <<nextItem, enq, enqOk>>
     ELSE IF AddRequestPointerErr # "nil"
     THEN /\ apc' = [apc EXCEPT ![t] = "wake"]
          /\ UNCHANGED <<awaken, areq, ares, nextItem, enq, enqOk>>
     ELSE IF ~awaken[t]
     THEN /\ Return(t, "nil")
          /\ Note(t, "AddRequest", awaken[t])
          /\ enqOk' = enqOk \cup {NewRequest}
     ELSE /\ apc' = [apc EXCEPT ![t] = "wake"]
          /\ areq' = [areq EXCEPT ![t] = NewRequest]
          /\ Note(t, "AddRequest", awaken[t])
          /\ UNCHANGED <<awaken, ares, enqOk>>
  /\ UNCHANGED <<call, Threads, wake, runVars, loopVars, workerVars,
                 executed, overlap>>

\* AddRequest, lines 103-109: storeRequest, then return or go on to the send
AddRequestStore(t) ==
  /\ apc[t] = "store"
  /\ AddRequestPointer(NewRequest)
  /\ IF AddRequestPointerErr # "nil"
     THEN /\ Return(t, AddRequestPointerErr)
          /\ UNCHANGED <<nextItem, enq, enqOk>>
     ELSE IF ~awaken[t]
     THEN /\ Return(t, "nil")
          /\ Note(t, "AddRequest", awaken[t])
          /\ enqOk' = enqOk \cup {NewRequest}
     ELSE /\ apc' = [apc EXCEPT ![t] = "wake"]
          /\ areq' = [areq EXCEPT ![t] = NewRequest]
          /\ Note(t, "AddRequest", awaken[t])
          /\ UNCHANGED <<awaken, ares, enqOk>>
  /\ UNCHANGED <<call, Threads, wake, runVars, loopVars, workerVars,
                 executed, overlap>>

\* AddURL going on to a wake send, as AddRequest does, when Run is active
AddURLWakes(t, parses) ==
  /\ CanCall(t) /\ apc[t] = "idle"
  /\ nextItem + Pending <= MaxItems
  /\ IF ~parses
     THEN /\ ares' = "ErrParse"
          /\ UNCHANGED <<storeVars, nextItem, enqOk, enq, overlap, apc, areq>>
     ELSE /\ AddRequestPointer(NewRequest)
          /\ overlap' = (overlap \/ wake)
          /\ IF AddRequestPointerErr # "nil"
             THEN /\ ares' = AddRequestPointerErr
                  /\ UNCHANGED <<nextItem, enq, enqOk, apc, areq>>
             ELSE IF ~wake
             THEN /\ ares' = "nil"
                  /\ Note(t, "AddURL", wake)
                  /\ enqOk' = enqOk \cup {NewRequest}
                  /\ UNCHANGED <<apc, areq>>
             ELSE /\ apc' = [apc EXCEPT ![t] = "wake"]
                  /\ areq' = [areq EXCEPT ![t] = NewRequest]
                  /\ Note(t, "AddURL", wake)
                  /\ UNCHANGED <<ares, enqOk>>
  /\ UNCHANGED <<call, Threads, wake, runVars, loopVars, workerVars,
                 awaken, executed>>

\* AddURL, lines 76-96: url.Parse, then AddRequestPointer; never a wake
AddURL(t, parses) ==
  /\ CanCall(t) /\ apc[t] = "idle"
  /\ nextItem + Pending <= MaxItems
  /\ IF ~parses
     THEN /\ ares' = "ErrParse"
          /\ UNCHANGED <<storeVars, nextItem, enqOk, enq, overlap>>
     ELSE /\ AddRequestPointer(NewRequest)
          /\ ares' = AddRequestPointerErr
          /\ overlap' = (overlap \/ wake)
          /\ IF AddRequestPointerErr = "nil"
             THEN /\ Note(t, "AddURL", wake)
                  /\ enqOk' = enqOk \cup {NewRequest}
             ELSE UNCHANGED <<nextItem, enq, enqOk>>
  /\ UNCHANGED <<call, Threads, wake, runVars, loopVars, workerVars,
                 apc, awaken, areq, executed>>

\* ------------------------------------------------------------ Queue: Run
\* Run without the test of q.wake: every call makes a wake channel and
\* starts workers and a loop
RunStartUnchecked(calls) ==
  /\ Len(rpc) < calls
  /\ runErr' = Append(runErr, "none")
  /\ wake' = TRUE
  /\ rpc' = Append(rpc, "wait")
  /\ loops' = loops + 1
  /\ spawned' = spawned + Threads
  /\ wpc' = [w \in Workers |-> IF w <= Threads THEN "recv" ELSE "off"]
  /\ lpc' = "size"
  /\ active' = 0
  /\ overlap' = (overlap \/ \E t \in Callers : apc[t] # "idle")
  /\ UNCHANGED <<storeVars, call, Threads, errc, closed, lsize, sent,
                 req, wreq, addVars, nextItem, executed, enqOk, enq>>

\* Run, lines 136-149: under q.mut panic if q.wake exists, else make it;
\* then make the channels and start Threads workers and the loop. At most
\* `calls` calls of Run are made in a behaviour.
RunStart(calls) ==
  /\ Len(rpc) < calls
  /\ runErr' = Append(runErr, "none")
  /\ IF wake
     THEN /\ rpc' = Append(rpc, "panicked")
          /\ UNCHANGED <<wake, loops, spawned, lpc, active, wpc, overlap>>
     ELSE /\ wake' = TRUE
          /\ rpc' = Append(rpc, "wait")
          /\ loops' = loops + 1
          /\ spawned' = spawned + Threads
          /\ wpc' = [w \in Workers |-> IF w <= Threads THEN "recv" ELSE "off"]
          /\ lpc' = "size"
          /\ active' = 0
          /\ overlap' = (overlap \/ \E t \in Callers : apc[t] # "idle")
  /\ UNCHANGED <<storeVars, call, Threads, errc, closed, lsize, sent,
                 req, wreq, addVars, nextItem, executed, enqOk, enq>>

\* Run, lines 150-151: receive the loop's verdict, close requestc, return
RunReturn(r) ==
  /\ r \in DOMAIN rpc
  /\ rpc[r] = "wait"
  /\ errc # <<>>
  /\ runErr' = [runErr EXCEPT ![r] = Head(errc)]
  /\ errc' = Tail(errc)
  /\ closed' = TRUE
  /\ rpc' = [rpc EXCEPT ![r] = "returned"]
  /\ UNCHANGED <<storeVars, call, Threads, wake, loops, spawned, loopVars,
                 workerVars, addVars, itemVars>>

\* ----------------------------------------------------------- Queue: loop
\* The locals size, sent and req are dead once the step that reads them is
\* taken (each iteration assigns them afresh); they are then kept at their
\* zero value.
\* loop, line 157: size, err := q.storage.QueueSize()
LoopQueueSize ==
  /\ lpc = "size"
  /\ lsize' = QueueSize
  /\ lpc' = "check"
  /\ UNCHANGED <<storeVars, call, Threads, wake, runVars, active, sent, req,
                 workerVars, addVars, itemVars>>

\* the failed query reported to Run as success
LoopQueueSizeErrAsNil ==
  /\ lpc = "size"
  /\ errc' = Append(errc, "nil")
  /\ lpc' = "failed"
  /\ UNCHANGED <<storeVars, call, Threads, wake, rpc, runErr, loops, spawned,
                 closed, lsize, active, sent, req, workerVars, addVars,
                 itemVars>>

\* loop, lines 157-161: QueueSize returns an error; errc <- err; break
LoopQueueSizeErr ==
  /\ lpc = "size"
  /\ errc' = Append(errc, "ErrStorage")
  /\ lpc' = "failed"
  /\ UNCHANGED <<storeVars, call, Threads, wake, rpc, runErr, loops, spawned,
                 closed, lsize, active, sent, req, workerVars, addVars,
                 itemVars>>

\* the termination test on the size alone, in-flight requests ignored
LoopTerminateSizeOnly ==
  /\ lpc = "check"
  /\ lsize = 0
  /\ errc' = Append(errc, "nil")
  /\ lpc' = "done"
  /\ UNCHANGED <<storeVars, call, Threads, wake, rpc, runErr, loops, spawned,
                 closed, lsize, active, sent, req, workerVars, addVars,
                 itemVars>>

\* loop, lines 162-168: the termination test on the size just read
LoopTerminate ==
  /\ lpc = "check"
  /\ lsize = 0 /\ active = 0
  /\ errc' = Append(errc, "nil")
  /\ lpc' = "done"
  /\ UNCHANGED <<storeVars, call, Threads, wake, rpc, runErr, loops, spawned,
                 closed, lsize, active, sent, req, workerVars, addVars,
                 itemVars>>

\* loadRequest, lines 208-226: GetRequest, copy, UnmarshalRequest
loadRequestErr == GetRequestErr

loadRequestVal == UnmarshalRequest(GetRequestVal)

\* loop, lines 169-177: sent := requestc; a request is loaded when size > 0
LoopLoad ==
  /\ lpc = "check"
  /\ lsize > 0
  /\ GetRequest
  /\ IF loadRequestErr = "panic"
     THEN /\ lpc' = "panicked"
          /\ UNCHANGED <<sent, req>>
     ELSE /\ sent' = TRUE
          /\ req' = loadRequestVal
          /\ lpc' = "select"
  /\ lsize' = 0
  /\ UNCHANGED <<call, Threads, wake, runVars, active, workerVars,
                 addVars, itemVars>>

\* the load error sent to Run, the loop ending
LoopLoadErrSurfaced(pops) ==
  /\ lpc = "check"
  /\ lsize > 0
  /\ IF pops THEN GetRequest ELSE UNCHANGED storeVars
  /\ errc' = Append(errc, "ErrLoad")
  /\ lpc' = "failed"
  /\ lsize' = 0
  /\ UNCHANGED <<call, Threads, wake, rpc, runErr, loops, spawned, closed,
                 active, sent, req, workerVars, addVars, itemVars>>

\* loop, lines 171-177: loadRequest returns an error; continue. Either
\* GetRequest failed in the storage (pops = FALSE, nothing unlinked) or the
\* request was popped and Marshal / UnmarshalRequest failed (pops = TRUE)
LoopLoadErr(pops) ==
  /\ lpc = "check"
  /\ lsize > 0
  /\ IF pops THEN GetRequest ELSE UNCHANGED storeVars
  /\ lpc' = "size"
  /\ lsize' = 0
  /\ UNCHANGED <<call, Threads, wake, runVars, active, sent, req, workerVars,
                 addVars, itemVars>>

\* loop, lines 178-180: nothing to offer in this iteration, sent = nil
LoopIdle ==
  /\ lpc = "check"
  /\ lsize = 0 /\ active > 0
  /\ sent' = FALSE
  /\ req' = Nil
  /\ lpc' = "select"
  /\ lsize' = 0
  /\ UNCHANGED <<storeVars, call, Threads, wake, runVars, active,
                 workerVars, addVars, itemVars>>

\* the hand-off after which the loop goes on offering the same request
LoopSendKeepsOffering(w) ==
  /\ lpc = "select" /\ sent
  /\ wpc[w] = "recv" /\ ~closed
  /\ wreq' = [wreq EXCEPT ![w] = req]
  /\ wpc' = [wpc EXCEPT ![w] = "do"]
  /\ active' = active + 1
  /\ UNCHANGED <<storeVars, call, Threads, wake, runVars, lpc, lsize, sent,
                 req, addVars, itemVars>>

\* the hand-off without active++
LoopSendUncounted(w) ==
  /\ lpc = "select" /\ sent
  /\ wpc[w] = "recv" /\ ~closed
  /\ wreq' = [wreq EXCEPT ![w] = req]
  /\ wpc' = [wpc EXCEPT ![w] = "do"]
  /\ req' = Nil
  /\ sent' = FALSE
  /\ lpc' = "size"
  /\ UNCHANGED <<storeVars, call, Threads, wake, runVars, lsize, active,
                 addVars, itemVars>>

\* select, lines 184-186: an idle worker receives req from requestc
LoopSend(w) ==
  /\ lpc = "select" /\ sent
  /\ wpc[w] = "recv" /\ ~closed
  /\ wreq' = [wreq EXCEPT ![w] = req]
  /\ wpc' = [wpc EXCEPT ![w] = "do"]
  /\ active' = active + 1
  /\ req' = Nil
  /\ sent' = FALSE
  /\ lpc' = "size"
  /\ UNCHANGED <<storeVars, call, Threads, wake, runVars, lsize,
                 addVars, itemVars>>

\* the wake that ends the wait whether or not a request is on offer
LoopWakeAlwaysBreaks(t) ==
  /\ lpc = "select"
  /\ apc[t] = "wake"
  /\ Return(t, "nil")
  /\ enqOk' = enqOk \cup {areq[t]}
  /\ lpc' = "size"
  /\ sent' = FALSE
  /\ req' = Nil
  /\ UNCHANGED <<storeVars, call, Threads, wake, runVars, lsize, active,
                 workerVars, nextItem, executed, enq, overlap>>

\* select, lines 187-190, with AddRequest lines 110-111: the loop receives
\* the wake that t is sending; t's AddRequest returns nil
LoopWake(t) ==
  /\ lpc = "select"
  /\ apc[t] = "wake"
  /\ Return(t, "nil")
  /\ enqOk' = enqOk \cup {areq[t]}
  /\ lpc' = (IF ~sent THEN "size" ELSE "select")
  /\ UNCHANGED <<storeVars, call, Threads, wake, runVars, lsize, active, sent,
                 req, workerVars, nextItem, executed, enq, overlap>>

\* the completion received without active--
LoopCompleteUncounted(w) ==
  /\ lpc = "select"
  /\ wpc[w] = "complete"
  /\ wpc' = [wpc EXCEPT ![w] = "recv"]
  /\ lpc' = (IF ~sent /\ active = 0 THEN "size" ELSE "select")
  /\ UNCHANGED <<storeVars, call, Threads, wake, runVars, lsize, active, sent,
                 req, wreq, addVars, itemVars>>

\* the completion received without the test that ends the wait
LoopCompleteNoBreak(w) ==
  /\ lpc = "select"
  /\ wpc[w] = "complete"
  /\ wpc' = [wpc EXCEPT ![w] = "recv"]
  /\ active' = active - 1
  /\ UNCHANGED <<storeVars, call, Threads, wake, runVars, lpc, lsize, sent,
                 req, wreq, addVars, itemVars>>

\* select, lines 191-195, with independentRunner line 204: the loop receives
\* the completion that w is sending
LoopComplete(w) ==
  /\ lpc = "select"
  /\ wpc[w] = "complete"
  /\ wpc' = [wpc EXCEPT ![w] = "recv"]
  /\ active' = active - 1
  /\ lpc' = (IF ~sent /\ active - 1 = 0 THEN "size" ELSE "select")
  /\ UNCHANGED <<storeVars, call, Threads, wake, runVars, lsize, sent, req,
                 wreq, addVars, itemVars>>

\* ------------------------------------------------ independentRunner
\* line 203: req.Do() returns (its enqueue calls have returned)
WorkerDo(w) ==
  /\ wpc[w] = "do"
  /\ apc[w] = "idle"
  /\ executed' = [executed EXCEPT ![wreq[w]] = @ + 1]
  /\ wpc' = [wpc EXCEPT ![w] = "complete"]
  /\ wreq' = [wreq EXCEPT ![w] = Nil]
  /\ UNCHANGED <<storeVars, call, Threads, wake, runVars, loopVars, addVars,
                 nextItem, enqOk, enq, overlap>>

\* line 202: range over the closed requestc ends
WorkerExit(w) ==
  /\ wpc[w] = "recv"
  /\ closed
  /\ wpc' = [wpc EXCEPT ![w] = "exit"]
  /\ UNCHANGED <<storeVars, call, Threads, wake, runVars, loopVars, wreq,
                 addVars, itemVars>>

Step(calls) ==
  \/ \E t \in Callers : AddRequestLock(t)
  \/ \E t \in Callers : AddRequestStore(t)
  \/ \E t \in Callers : \E parses \in BOOLEAN : AddURL(t, parses)
  \/ RunStart(calls)
  \/ \E r \in 1..MaxRuns : RunReturn(r)
  \/ LoopQueueSize
  \/ LoopTerminate
  \/ LoopLoad
  \/ LoopIdle
  \/ \E w \in Workers : LoopSend(w)
  \/ \E t \in Callers : LoopWake(t)
  \/ \E w \in Workers : LoopComplete(w)
  \/ \E w \in Workers : WorkerDo(w)
  \/ \E w \in Workers : WorkerExit(w)

\* the Queue with Run called once
Next == Step(1)

Spec == Init /\ [][Next]_vars

\* the Queue with Run called up to MaxRuns times
RunNext == Step(MaxRuns)

RunSpec == Init /\ [][RunNext]_vars

\* the Queue with Run called once, over a storage and a collector that may
\* fail
FaultNext ==
  \/ Step(1)
  \/ LoopQueueSizeErr
  \/ \E pops \in BOOLEAN : LoopLoadErr(pops)

FaultSpec == Init /\ [][FaultNext]_vars

\* What the Go runtime guarantees: a goroutine that can take a step takes it
\* (the loop between two channel operations, a worker whose req.Do() can
\* return or whose store call can proceed, Run once errc holds a value), and
\* a channel operation that stays ready in the loop's select is chosen.
\* Nothing is assumed of the outside producers.
Fairness ==
  /\ WF_vars(LoopQueueSize \/ LoopTerminate \/ LoopLoad \/ LoopIdle)
  /\ WF_vars(\E r \in 1..MaxRuns : RunReturn(r))
  /\ \A w \in Workers : WF_vars(AddRequestStore(w))
  /\ \A w \in Workers : WF_vars(WorkerDo(w))
  /\ \A w \in Workers : WF_vars(LoopWake(w))
  /\ WF_vars(\E w \in Workers : LoopSend(w))
  /\ \A w \in Workers : WF_vars(LoopComplete(w))

FairSpec == Spec /\ Fairness

\* ------------------------------------------------------------------ claims
RunReturned == \E r \in DOMAIN rpc : rpc[r] = "returned"

Executing(w) == wpc[w] \in {"do", "complete"}

\* C1: when Run returns, every request whose AddRequest / AddURL call has
\* returned nil has been executed exactly once.
C1_EnqueuedExecutedOnceAtReturn ==
  [][(~RunReturned /\ RunReturned') => \A i \in enqOk : executed[i] = 1]_vars

\* C2: a request stored by an AddRequest call of an outside producer that
\* found Run active is never lost: once the loop has terminated (nothing is
\* dispatched afterwards) it has been executed.
C2_NoStoredRequestLost ==
  lpc = "done" =>
    \A i \in stored : enq[i] = "awake" => executed[i] = 1

\* a request enqueued by a worker's AddRequest call, made while the worker
\* executes another request
ByWorker(i) == enq[i] = "worker"

C3_Safe ==
  RunReturned =>
    /\ \A w \in Workers : ~Executing(w) /\ apc[w] = "idle"
    /\ \A i \in stored : ByWorker(i) => executed[i] >= 1

C3_Live ==
  /\ \A w \in Workers : (apc[w] # "idle") ~> (apc[w] = "idle")
  /\ \A i \in Items : (i \in stored /\ ByWorker(i)) ~> (executed[i] >= 1)

\* C3: a request a worker enqueues with AddRequest while executing is
\* executed before Run returns: Run does not return while a worker is
\* executing or inside AddRequest, every AddRequest call of a worker
\* returns, and every request such a call stored is eventually executed.
C3_WorkerEnqueueExecuted == []C3_Safe /\ C3_Live

C3_Witness ==
  /\ RunReturned
  /\ \E i \in stored : ByWorker(i) /\ executed[i] = 1

\* C4: when Run returns nil, the backlog is empty (Size() = 0) and no worker
\* is executing a request.
C4_EmptyAndIdleAtReturn ==
  [][(~RunReturned /\ RunReturned')
       => /\ size' = 0
          /\ \A w \in Workers : ~Executing(w)']_vars

C5_Safe ==
  (RunReturned /\ ~overlap) =>
    /\ \A r \in DOMAIN rpc : rpc[r] = "returned" => runErr[r] = "nil"
    /\ \A i \in Items : executed[i] = (IF i \in stored THEN 1 ELSE 0)
    /\ size = 0

C5_Live == (rpc # <<>> /\ ~overlap) ~> (RunReturned \/ overlap)

\* C5: if every enqueue call returned before Run was called and none is
\* made while Run is active, Run returns; it returns nil, each stored
\* request has been executed exactly once (and nothing else was executed),
\* and the queue is empty.
C5_DrainsPreloadedQueue == []C5_Safe /\ C5_Live

C5_Witness ==
  /\ RunReturned /\ ~overlap
  /\ Threads = 2
  /\ Cardinality(stored) >= 2
  /\ \A i \in stored : executed[i] = 1

\* C6: no AddRequest call stays blocked on the wake send: a call is never at
\* the send in a state where the loop, the only receiver, has terminated.
C6_NoSendBlockedForever ==
  ~(lpc = "done" /\ \E t \in Callers : apc[t] = "wake")

C7_Inv ==
  /\ loops <= 1
  /\ spawned <= Threads
  /\ \A r \in DOMAIN rpc : r >= 2 => rpc[r] = "panicked"

\* C7: a call of Run made when a Run has already been called (still
\* blocked or returned) panics and starts no worker and no loop; at most one
\* loop is ever started, and q.wake, once made, stays.
C7_SecondRunPanics ==
  /\ []C7_Inv
  /\ [][wake => wake']_vars
  /\ [][(Len(rpc') > Len(rpc) /\ wake)
         => /\ rpc'[Len(rpc')] = "panicked"
            /\ UNCHANGED <<loops, spawned, lpc, wpc>>]_vars

C7_Witness == rpc = <<"returned", "panicked">>

C8_Append ==
  [][call'.op \in {"AddRequestPointer", "AddRequest"} =>
       IF MaxSize > 0 /\ size >= MaxSize
       THEN /\ call'.err = "ErrQueueFull"
            /\ size' = size /\ first' = first /\ last' = last
       ELSE /\ call'.err = "nil"
            /\ size' = size + 1]_vars

C8_Bounded == MaxSize > 0 => size <= MaxSize

\* C8: an append at size >= MaxSize > 0 returns ErrQueueFull and leaves size,
\* first and last as they were; any other append succeeds (with MaxSize = 0
\* none is rejected); so size never exceeds a positive MaxSize.
C8_CapacityRespected == []C8_Bounded /\ C8_Append

C8_Witness ==
  /\ call.op = "AddRequestPointer" /\ call.err = "ErrQueueFull"
  /\ MaxSize > 0 /\ size = MaxSize

\* C9: the k-th successful pop returns the request of the k-th successful
\* append, and a pointer pop returns the request it unlinked.
C9_Fifo ==
  /\ Len(popped) <= Len(appended)
  /\ \A k \in 1..Len(popped) : popped[k] = appended[k]
  /\ (call.op = "GetRequestPointer" /\ call.val # Nil)
       => call.val = popped[Len(popped)]

\* three pops, the store having run empty after the first append and been
\* refilled (the first item was unlinked before a second was linked to it)
C9_Witness ==
  /\ Len(popped) = 3
  /\ nodes[1].Next = Nil
  /\ call.op = "GetRequestPointer"

\* C10: GetRequest on an empty store returns the empty buffer and a nil
\* error, without a panic, and leaves the store as it was.
C10_EmptyGetRequestIsBenign ==
  [][(call'.op = "GetRequest" /\ size = 0)
       => /\ call'.val = <<>>
          /\ call'.err = "nil"
          /\ UNCHANGED storeVars]_vars

\* the loop has left its for loop (nil sent to errc, or the QueueSize error)
LoopExited == lpc \in {"done", "failed"}

\* C11: once the loop has exited and Run has closed requestc, no worker is
\* left at a channel operation that can never complete: no worker is at its
\* completion send (the loop, the only receiver of complete, is gone).
C11_NoWorkerBlockedAfterExit ==
  ~(LoopExited /\ closed /\ \E w \in Workers : wpc[w] = "complete")

C12_AbortsAtOnce ==
  [][(lpc # "failed" /\ lpc' = "failed")
       => /\ lpc = "size"
          /\ UNCHANGED <<storeVars, active, workerVars>>]_vars

C12_NoFurtherWork ==
  [][lpc = "failed"
       => /\ lpc' = "failed"
          /\ popped' = popped
          /\ active' = active
          /\ \A w \in Workers : wreq'[w] # Nil => wreq'[w] = wreq[w]]_vars

C12_ReturnsTheError ==
  lpc = "failed" =>
    IF RunReturned
    THEN runErr = <<"ErrStorage">> /\ errc = <<>>
    ELSE errc = <<"ErrStorage">>

\* C12: when QueueSize fails the loop ends in that iteration, at the query,
\* with nothing popped or handed over in the failing step or afterwards, and
\* the error Run returns is the error of the query.
C12_QueueSizeFailureEndsRun ==
  /\ []C12_ReturnsTheError
  /\ C12_AbortsAtOnce
  /\ C12_NoFurtherWork

\* the query failed in a later iteration, a request still in the store
C12_Witness ==
  /\ lpc = "failed" /\ RunReturned
  /\ runErr = <<"ErrStorage">>
  /\ Len(popped) >= 1 /\ size >= 1

\* C13: in every state of the in-memory store, size = 0 exactly when first
\* and last are both nil.
C13_EmptyIffNilEnds == (size = 0) <=> (first = Nil /\ last = Nil)

\* the workers holding a request whose completion the loop has not received
InFlight == {w \in Workers : Executing(w)}

\* C14: active is the number of requests handed to a worker and not yet
\* reported complete to the loop; it stays within 0..Threads, only the
\* Threads workers of the Run execute, and a worker holds one request at a
\* time, no request being held by two workers.
C14_ActiveCountsInFlight ==
  /\ active = Cardinality(InFlight)
  /\ 0 <= active /\ active <= Threads
  /\ \A w \in Workers : Executing(w) => w <= Threads
  /\ \A w \in Workers : wreq[w] # Nil <=> wpc[w] = "do"
  /\ \A v, w \in Workers : (wreq[v] # Nil /\ wreq[v] = wreq[w]) => v = w

\* every worker busy, one of them at its completion send
C14_Witness ==
  /\ Threads = MaxThreads /\ active = Threads
  /\ \E w \in Workers : wpc[w] = "complete"
  /\ \E w \in Workers : wpc[w] = "do"

RECURSIVE ListFrom(_, _)
\* the requests of the list from node n on, at most k nodes followed
ListFrom(n, k) ==
  IF n = Nil \/ k = 0 THEN {}
  ELSE {nodes[n].Request} \cup ListFrom(nodes[n].Next, k - 1)

\* the requests in the backlog
Backlog == ListFrom(first, size)

\* request i has been handed to a worker
Handed(i) == executed[i] >= 1 \/ \E w \in Workers : wreq[w] = i

\* how many times request i has been received by a worker
Handoffs(i) == executed[i] + Cardinality({w \in Workers : wreq[w] = i})

\* C15: a request handed to a worker is not in the backlog, is not on offer
\* by the loop and has been received once, by one worker; no request is
\* appended to the backlog twice.
C15_HandedOnce ==
  /\ \A i \in Items :
       Handed(i) => /\ i \notin Backlog
                    /\ req # i
                    /\ Handoffs(i) = 1
  /\ \A k, l \in DOMAIN appended : appended[k] = appended[l] => k = l

\* every request executed, two of them by the same worker
C15_Witness ==
  /\ Threads = 1
  /\ \A i \in Items : executed[i] = 1
  /\ lpc = "done"

C16_AtSendOnlyStored ==
  \A t \in Callers :
    apc[t] = "wake" =>
      /\ awaken[t]
      /\ \E k \in DOMAIN appended : appended[k] = areq[t]

C16_StoreThenWake ==
  [][\A t \in Callers :
       (apc[t] = "store" /\ apc'[t] # "store") =>
         IF QueueFull
         THEN /\ apc'[t] = "idle"
              /\ ares' = "ErrQueueFull"
              /\ UNCHANGED storeVars
         ELSE /\ appended' = Append(appended, NewRequest)
              /\ IF awaken[t]
                 THEN apc'[t] = "wake" /\ areq'[t] = NewRequest
                 ELSE apc'[t] = "idle" /\ ares' = "nil"]_vars

\* C16: an AddRequest call is at the wake send only if it found Run active
\* and has stored its request; a call whose store fails returns the error
\* without going to the send; a call that found Run inactive stores and
\* returns nil without going to the send.
C16_WakeOnlyAfterStore == []C16_AtSendOnlyStored /\ C16_StoreThenWake

\* a call at the wake send, its request in the backlog, the call before it
\* having been refused by the full store
C16_Witness ==
  /\ \E t \in Callers : apc[t] = "wake" /\ areq[t] \in Backlog
  /\ ares = "ErrQueueFull"

\* C17: while the loop offers a loaded request, every step leaves it in the
\* wait with that request on offer, nothing popped and nothing sent to errc,
\* except the step in which a worker receives the request.
C17_OfferedUntilHandedOver ==
  [][(lpc = "select" /\ sent) =>
       \/ /\ lpc' = "select" /\ sent' /\ req' = req
          /\ popped' = popped /\ errc' = errc
       \/ \E w \in Workers :
            /\ wpc[w] = "recv" /\ wpc'[w] = "do"
            /\ wreq'[w] = req
            /\ active' = active + 1]_vars

\* request 2 is on offer; request 3 was stored after 2 was popped (its node
\* was linked to an empty list) by an AddRequest call whose wake the loop
\* has since received
C17_Witness ==
  /\ lpc = "select" /\ sent /\ req = 2
  /\ Len(nodes) = 3 /\ nodes[2].Next = Nil
  /\ 3 \in Backlog
  /\ enq[3] = "awake" /\ 3 \in enqOk

C18_WaitsOnlyWithInFlight ==
  (lpc = "select" /\ ~sent) => active >= 1 /\ InFlight # {}

C18_LastCompletionEndsWait ==
  [][(lpc = "select" /\ ~sent /\ active' = 0) => lpc' = "size"]_vars

\* C18: the loop is in its wait with nothing on offer only while a request
\* is in flight (active >= 1), and the completion that brings active to 0
\* takes it out of the wait, to the next QueueSize query and termination
\* test.
C18_NeverWaitsIdle ==
  []C18_WaitsOnlyWithInFlight /\ C18_LastCompletionEndsWait

\* the loop back at the query with nothing in flight after an execution:
\* it left a wait with nothing on offer on the last completion
C18_Witness ==
  /\ lpc = "size" /\ active = 0
  /\ \E i \in Items : executed[i] = 1
  /\ size >= 1

C19_LoadErrAbsorbed ==
  [][(lpc = "check" /\ lsize > 0 /\ lpc' \notin {"check", "select", "panicked"})
       => /\ lpc' = "size"
          /\ active' = active
          /\ UNCHANGED <<runVars, workerVars>>]_vars

C19_OnlyQueueSizeErrReturned ==
  /\ \A k \in DOMAIN errc :
       errc[k] # "nil" => errc[k] = "ErrStorage" /\ lpc = "failed"
  /\ \A r \in DOMAIN runErr :
       runErr[r] \notin {"none", "nil"}
         => runErr[r] = "ErrStorage" /\ lpc = "failed"

\* C19: an iteration whose load fails sends nothing to errc, leaves active,
\* the workers and Run as they are and goes back to the QueueSize query;
\* the only error Run returns is the error of a failed QueueSize query.
C19_LoadFailureNotSurfaced ==
  []C19_OnlyQueueSizeErrReturned /\ C19_LoadErrAbsorbed

\* Run has returned nil although a request was popped and never executed:
\* its load failed after the pop, and the loop went on to execute another
C19_Witness ==
  /\ RunReturned /\ runErr = <<"nil">>
  /\ \E k \in DOMAIN popped : executed[popped[k]] = 0
  /\ \E i \in Items : executed[i] = 1

\* a request stored by a worker's AddURL call, made while the worker
\* executes another request
ByWorkerURL(i) == enq[i] = "workerURL"

C20_NoWake ==
  [][/\ \A t \in Callers :
          (apc'[t] = "wake" /\ apc[t] # "wake") => apc[t] = "store"
     /\ \A i \in Items :
          (enq[i] = "none" /\ enq'[i] = "workerURL")
            => /\ apc' = apc
               /\ i \in enqOk'
               /\ UNCHANGED <<loopVars, workerVars>>]_vars

C20_Safe ==
  RunReturned => \A i \in stored : ByWorkerURL(i) => executed[i] >= 1

C20_Live ==
  \A i \in Items : (i \in stored /\ ByWorkerURL(i)) ~> (executed[i] >= 1)

\* C20: AddURL stores and returns without a step at the wake send (a call is
\* at the send only from the store step of AddRequest); a request a worker
\* stores with AddURL while executing is eventually executed, and Run does
\* not return before it has been.
C20_WorkerAddURLExecuted == C20_NoWake /\ []C20_Safe /\ C20_Live

C20_Witness ==
  /\ RunReturned
  /\ \E i \in stored : ByWorkerURL(i) /\ executed[i] = 1

====
